---- MODULE Spec2Model ----
(***************************************************************************)
(* Model of business/auction.go: the EthConnection engine (status, list,   *)
(* bid, stats, deploy) over an Ethereum node, a SimpleAuction contract and *)
(* the on-disk key store "./keys".                                         *)
(*                                                                         *)
(* Scaling.  TLC integers are 32 bits wide, so Go's int64/uint64 are       *)
(* modelled Int64Bits wide; on-chain uint256 values are unbounded naturals *)
(* below MaxAmount (amounts) or MaxTime + MaxDuration (times), which are   *)
(* far from the uint256 modulus as they are on a real chain.               *)
(***************************************************************************)
EXTENDS Integers, Sequences, FiniteSets, TLC

\* ------------------------------------------------------------------ bounds
Int64Bits == 3
MaxTime == 2
MaxDuration == 1
MaxLogs == 2
MaxContracts == 1

RECURSIVE Pow2(_)
Pow2(n) == IF n = 0 THEN 1 ELSE 2 * Pow2(n - 1)

MaxInt64 == Pow2(Int64Bits - 1) - 1
\* on-chain amounts are uint256: they range past the int64 maximum
MaxAmount == MaxInt64 + 1

\* ------------------------------------------------------- integer conversions
\* (*big.Int).Int64 of a non-negative x: the low 64 bits, read as two's complement
Int64(x) ==
    LET m == x % Pow2(Int64Bits)
    IN  IF m >= Pow2(Int64Bits - 1) THEN m - Pow2(Int64Bits) ELSE m

\* (*big.Int).Uint64: the low 64 bits
Uint64(x) == x % Pow2(Int64Bits)

\* Go's int64 "+=": wraps around
AddInt64(a, b) == Int64(a + b)

\* ------------------------------------------------------------------ errors
HigherBidPhrase == "There already is a higher bid"
AuctionEndedPhrase == "Auction already ended"

NilErr == [type |-> "nil", text |-> <<>>]
\* errors.New(...) and every error value of a library: its type and its text
ErrorString(text) == [type |-> "error", text |-> text]
HigherBidAlreadySubmitted == [type |-> "HigherBidAlreadySubmitted", text |-> <<HigherBidPhrase>>]
AuctionEnded == [type |-> "AuctionEnded", text |-> <<AuctionEndedPhrase>>]

\* strings.Contains over a text held as a sequence of fragments
Contains(text, phrase) == \E i \in DOMAIN text : text[i] = phrase

\* the texts a submission the node refuses can carry: a transport error, a revert
\* with either phrase, and a text that holds both phrases
SubmitTexts ==
    { <<"connection refused">>,
      <<"execution reverted: ", HigherBidPhrase>>,
      <<"execution reverted: ", AuctionEndedPhrase>>,
      <<AuctionEndedPhrase, " / ", HigherBidPhrase>> }
\* the text a failing local step or read carries; it holds a phrase Bid looks for
StepTexts ==
    { <<"i/o: ", AuctionEndedPhrase>> }

\* the environment's choice of the step that fails in one call, and the error's text
NoFault == [step |-> "none", text |-> <<>>]
Fault(step, text) == [step |-> step, text |-> text]
FaultsAt(steps) == {NoFault} \cup {Fault(s, t) : s \in steps, t \in StepTexts}

\* ----------------------------------------------------------- configuration
Unset == <<>>
AddressString(a) == <<"0x", a>>
ZeroAddress == 0
\* common.HexToAddress: never fails; text that is no address gives the zero address
HexToAddress(s) == IF Len(s) = 2 /\ s[1] = "0x" THEN s[2] ELSE ZeroAddress

ValidKey == <<"a", "1">>
NotHexKey == <<"z", "z">>
ZeroKey == <<"0", "0">>
HexDigits == {"0", "1", "a"}

\* LookupEnv with the found flag ignored, as os.Getenv would read the variable
LookupEnvIgnoringFound(e, name) == [val |-> e[name], found |-> TRUE]

\* os.LookupEnv
LookupEnv(e, name) == [val |-> e[name], found |-> e[name] # Unset]

\* hex.DecodeString: an error for an odd length or a digit that is none
DecodeString(s) ==
    IF Len(s) % 2 = 0 /\ \A i \in DOMAIN s : s[i] \in HexDigits
    THEN [err |-> NilErr, bytes |-> s]
    ELSE [err |-> ErrorString(<<"encoding/hex: invalid byte">>), bytes |-> <<>>]

\* crypto.ToECDSA: an error for a scalar that is zero (or out of range)
ToECDSA(b) ==
    IF b # <<>> /\ \E i \in DOMAIN b : b[i] # "0"
    THEN [err |-> NilErr, key |-> b]
    ELSE [err |-> ErrorString(<<"invalid private key">>), key |-> <<>>]

\* the account address of a private key
PubkeyToAddress(k) == <<"acct", k>>

\* ------------------------------------------------------------ the key store
\* The directory ./keys is a set of entries [addr, id]; id tells apart the entries
\* that two KeyStore objects write for one address.
ErrAccountAlreadyExists == ErrorString(<<"account already exists">>)
ErrNoMatch == ErrorString(<<"no key for given address or file">>)

HasAddress(cache, a) == \E f \in cache : f.addr = a

\* (*KeyStore).ImportECDSA: refuses an address its cache holds, else writes an entry
ImportECDSA(dir, cache, key, id, fault) ==
    LET acc == [addr |-> PubkeyToAddress(key), id |-> id]
    IN  IF HasAddress(cache, acc.addr)
        THEN [err |-> ErrAccountAlreadyExists, acc |-> acc, dir |-> dir]
        ELSE IF fault.step = "import"
        THEN [err |-> ErrorString(fault.text), acc |-> acc, dir |-> dir]
        ELSE [err |-> NilErr, acc |-> acc, dir |-> dir \cup {acc}]

\* (*KeyStore).Export: reads the entry's file and re-encrypts it
Export(dir, acc, fault) ==
    IF acc \notin dir
    THEN [err |-> ErrNoMatch, key |-> <<>>]
    ELSE IF fault.step = "export"
    THEN [err |-> ErrorString(fault.text), key |-> <<>>]
    ELSE [err |-> NilErr, key |-> <<"keyjson", acc.addr>>]

\* (*KeyStore).Delete: removes the entry's file; on an error the file stays
Delete(dir, acc, fault) ==
    IF acc \notin dir
    THEN [err |-> ErrNoMatch, dir |-> dir]
    ELSE IF fault.step = "delete"
    THEN [err |-> ErrorString(fault.text), dir |-> dir]
    ELSE [err |-> NilErr, dir |-> dir \ {acc}]

\* ------------------------------------------------------------- the ledger
\* chain.contracts[a] is the SimpleAuction deployed at address a; deployTime and
\* duration are history, kept for the properties only.  The engine reads and
\* writes no contract but the one CONTRACT_DEPLOYMENT_ADDR names, so of the others
\* the ledger keeps only that they exist (Unread).
Unread == [logs |-> <<>>]
ErrNoCode == ErrorString(<<"no contract code at given address">>)
ForeignAddr == <<"acct", "foreign">>

HasCode(ch, a) == a \in 1..Len(ch.contracts)
LogsAt(ch, a) == IF HasCode(ch, a) THEN ch.contracts[a].logs ELSE <<>>

\* the constructor of SimpleAuction: the end time is the block time plus biddingTime
NewContract(now, biddingTime, beneficiary) ==
    [ auctionEndTime |-> now + biddingTime, beneficiary |-> beneficiary,
      highestBid |-> 0, highestBidder |-> ZeroAddress, ended |-> FALSE,
      logs |-> <<>>, deployTime |-> now, duration |-> biddingTime ]

\* SimpleAuction.bid as the node executes it: the revert's text, or <<>> and the
\* contract after the bid
ContractBid(c, now, sender, value) ==
    IF now > c.auctionEndTime
    THEN [revert |-> <<"execution reverted: ", AuctionEndedPhrase>>, c |-> c]
    ELSE IF value <= c.highestBid
    THEN [revert |-> <<"execution reverted: ", HigherBidPhrase>>, c |-> c]
    ELSE [revert |-> <<>>,
          c |-> [c EXCEPT !.highestBid = value, !.highestBidder = sender,
                          !.logs = Append(@, [topic |-> "HighestBidIncreased",
                                              data |-> <<sender, value>>])]]

\* SimpleAuction.auctionEnd: once the end time is reached, emits AuctionEnded
ContractAuctionEnd(c, now) ==
    [c EXCEPT !.ended = TRUE,
              !.logs = Append(@, [topic |-> "AuctionEnded",
                                  data |-> <<c.highestBidder, c.highestBid>>])]

\* abi.ABI.Unpack("HighestBidIncreased", data): reads an address word and a
\* uint256 word from the data, whatever event the log entry belongs to
Unpack(data) ==
    IF Len(data) >= 2
    THEN [err |-> NilErr, event |-> <<data[1], data[2]>>]
    ELSE [err |-> ErrorString(<<"abi: cannot unmarshal">>), event |-> <<>>]

\* ------------------------------------------------------------ the engine
\* What one call returns and does: err and val are what the caller gets, dir and
\* chain the key store and the ledger when it returns, net the network calls it
\* issued in order, at the step it ended at, raw the error that step produced.
Ret(err, val, dir, ch, net, at, raw) ==
    [err |-> err, val |-> val, dir |-> dir, chain |-> ch, net |-> net, at |-> at, raw |-> raw]

ZeroStatus == [Ended |-> FALSE, HighestBid |-> 0]
ZeroStats == [Bids |-> 0, Volume |-> 0]

\* the comparison with >= in place of >
EndedAtNonStrict(headerTime, endTime) == headerTime >= Uint64(endTime)

\* header.Time > endTime.Uint64()
EndedAt(headerTime, endTime) == headerTime > Uint64(endTime)

\* EthConnection.GetAuctionStatus
GetAuctionStatus(e, dir, ch, fault) ==
    LET contractAddr == LookupEnv(e, "CONTRACT_DEPLOYMENT_ADDR")
        addr == HexToAddress(contractAddr.val)
        missing == ErrorString(<<"Instance url is needed to connect to an ethereum node">>)
        Fail(err, net, at) == Ret(err, ZeroStatus, dir, ch, net, at, err)
    IN  IF ~contractAddr.found THEN Fail(missing, <<>>, "config")
        ELSE IF fault.step = "endTime"
        THEN Fail(ErrorString(fault.text), <<"CallContract">>, "endTime")
        ELSE IF ~HasCode(ch, addr)
        THEN Fail(ErrNoCode, <<"CallContract">>, "endTime")
        ELSE IF fault.step = "header"
        THEN Fail(ErrorString(fault.text), <<"CallContract", "HeaderByNumber">>, "header")
        ELSE IF fault.step = "highestBid"
        THEN Fail(ErrorString(fault.text),
                  <<"CallContract", "HeaderByNumber", "CallContract">>, "highestBid")
        ELSE Ret(NilErr,
                 [Ended |-> EndedAt(ch.time, ch.contracts[addr].auctionEndTime),
                  HighestBid |-> Int64(ch.contracts[addr].highestBid)],
                 dir, ch, <<"CallContract", "HeaderByNumber", "CallContract">>, "return", NilErr)

\* the loop of ListAllBids over the fetched logs: nil and the error of the first
\* entry that does not unpack, else one Bid per entry, in order
RECURSIVE DecodeBids(_, _)
DecodeBids(logs, bids) ==
    IF logs = <<>> THEN [err |-> NilErr, bids |-> bids]
    ELSE LET u == Unpack(Head(logs).data)
         IN  IF u.err # NilErr THEN [err |-> u.err, bids |-> <<>>]
             ELSE DecodeBids(Tail(logs),
                             Append(bids, [Sender |-> u.event[1], Amount |-> Int64(u.event[2])]))

\* EthConnection.ListAllBids
ListAllBids(e, dir, ch, fault) ==
    LET contractAddr == LookupEnv(e, "CONTRACT_DEPLOYMENT_ADDR")
        addr == HexToAddress(contractAddr.val)
        missing == ErrorString(<<"contract address is needed to connect to the auction">>)
        d == DecodeBids(LogsAt(ch, addr), <<>>)
    IN  IF ~contractAddr.found THEN Ret(missing, <<>>, dir, ch, <<>>, "config", missing)
        ELSE IF fault.step = "logs"
        THEN Ret(ErrorString(fault.text), <<>>, dir, ch, <<"FilterLogs">>, "logs",
                 ErrorString(fault.text))
        ELSE IF d.err # NilErr
        THEN Ret(d.err, <<>>, dir, ch, <<"FilterLogs">>, "unpack", d.err)
        ELSE Ret(NilErr, d.bids, dir, ch, <<"FilterLogs">>, "return", NilErr)

\* the loop of Stats over the fetched logs
RECURSIVE FoldStats(_, _)
FoldStats(logs, stats) ==
    IF logs = <<>> THEN [err |-> NilErr, stats |-> stats]
    ELSE LET u == Unpack(Head(logs).data)
         IN  IF u.err # NilErr THEN [err |-> u.err, stats |-> ZeroStats]
             ELSE FoldStats(Tail(logs),
                            [Bids |-> AddInt64(stats.Bids, 1),
                             Volume |-> AddInt64(stats.Volume, Int64(u.event[2]))])

\* EthConnection.Stats
Stats(e, dir, ch, fault) ==
    LET contractAddr == LookupEnv(e, "CONTRACT_DEPLOYMENT_ADDR")
        addr == HexToAddress(contractAddr.val)
        missing == ErrorString(<<"contract address is needed to connect to the auction">>)
        f == FoldStats(LogsAt(ch, addr), ZeroStats)
    IN  IF ~contractAddr.found THEN Ret(missing, ZeroStats, dir, ch, <<>>, "config", missing)
        ELSE IF fault.step = "logs"
        THEN Ret(ErrorString(fault.text), ZeroStats, dir, ch, <<"FilterLogs">>, "logs",
                 ErrorString(fault.text))
        ELSE IF f.err # NilErr
        THEN Ret(f.err, ZeroStats, dir, ch, <<"FilterLogs">>, "unpack", f.err)
        ELSE Ret(NilErr, f.stats, dir, ch, <<"FilterLogs">>, "return", NilErr)

\* The signing sequence of Bid and of Deploy, from hex.DecodeString to ks.Delete.
\* keystore.NewKeyStore scans ./keys, so the cache ImportECDSA consults is the
\* directory as the call finds it.
Signer(dir, keyHex, id, fault) ==
    LET dec == DecodeString(keyHex)
        priv == ToECDSA(dec.bytes)
        imp == ImportECDSA(dir, dir, priv.key, id, fault)
        exp == Export(imp.dir, imp.acc, fault)
        del == Delete(imp.dir, imp.acc, fault)
    IN  IF dec.err # NilErr THEN [err |-> dec.err, dir |-> dir, key |-> <<>>, at |-> "decode"]
        ELSE IF priv.err # NilErr
        THEN [err |-> priv.err, dir |-> dir, key |-> <<>>, at |-> "toECDSA"]
        ELSE IF imp.err # NilErr
        THEN [err |-> imp.err, dir |-> imp.dir, key |-> <<>>, at |-> "import"]
        ELSE IF exp.err # NilErr
        THEN [err |-> exp.err, dir |-> imp.dir, key |-> <<>>, at |-> "export"]
        ELSE IF del.err # NilErr
        THEN [err |-> del.err, dir |-> del.dir, key |-> <<>>, at |-> "delete"]
        ELSE [err |-> NilErr, dir |-> del.dir, key |-> exp.key, at |-> "signed"]

\* acn.Bid(auth) with auth.Value = amount: the node's answer to the submission and
\* the ledger after it
SubmitBid(ch, addr, sender, amount, fault) ==
    IF fault.step = "submit" THEN [err |-> ErrorString(fault.text), chain |-> ch]
    ELSE IF ~HasCode(ch, addr) THEN [err |-> ErrNoCode, chain |-> ch]
    ELSE LET r == ContractBid(ch.contracts[addr], ch.time, sender, amount)
         IN  IF r.revert # <<>> THEN [err |-> ErrorString(r.revert), chain |-> ch]
             ELSE [err |-> NilErr, chain |-> [ch EXCEPT !.contracts[addr] = r.c]]

\* the translation with the two phrases looked for in the other order
TranslateBidErrorEndedFirst(err) ==
    IF Contains(err.text, AuctionEndedPhrase) THEN AuctionEnded
    ELSE IF Contains(err.text, HigherBidPhrase) THEN HigherBidAlreadySubmitted
    ELSE err

\* what Bid returns for a submission error
TranslateBidError(err) ==
    IF Contains(err.text, HigherBidPhrase) THEN HigherBidAlreadySubmitted
    ELSE IF Contains(err.text, AuctionEndedPhrase) THEN AuctionEnded
    ELSE err

\* EthConnection.Bid
Bid(e, dir, ch, amount, fault) ==
    LET contractAddr == LookupEnv(e, "CONTRACT_DEPLOYMENT_ADDR")
        addr == HexToAddress(contractAddr.val)
        noAddr == ErrorString(<<"contract address is needed to connect to the auction">>)
        bidderKey == LookupEnv(e, "BIDDER_ACC_PRIVATE_KEY")
        noKey == ErrorString(<<"bidder private is required to submit a bid to the auction">>)
        s == Signer(dir, bidderKey.val, 0, fault)
        sub == SubmitBid(ch, addr, s.key[2], amount, fault)
        Fail(err, d, net, at) == Ret(err, <<>>, d, ch, net, at, err)
    IN  IF ~contractAddr.found THEN Fail(noAddr, dir, <<>>, "config")
        ELSE IF ~bidderKey.found THEN Fail(noKey, dir, <<>>, "config")
        ELSE IF s.err # NilErr THEN Fail(s.err, s.dir, <<>>, s.at)
        ELSE IF fault.step = "chainid"
        THEN Fail(ErrorString(fault.text), s.dir, <<"ChainID">>, "chainid")
        ELSE IF fault.step = "auth"
        THEN Fail(ErrorString(fault.text), s.dir, <<"ChainID">>, "auth")
        ELSE IF sub.err # NilErr
        THEN Ret(TranslateBidError(sub.err), <<>>, s.dir, ch,
                 <<"ChainID", "SendTransaction">>, "submit", sub.err)
        ELSE Ret(NilErr, <<>>, s.dir, sub.chain,
                 <<"ChainID", "SendTransaction">>, "return", NilErr)

\* DeploySimpleAuction(auth, client, duration, beneficiary): the contract creation
SubmitDeploy(ch, duration, beneficiary, fault) ==
    IF fault.step = "submit" THEN [err |-> ErrorString(fault.text), chain |-> ch, address |-> ZeroAddress]
    ELSE [err |-> NilErr,
          chain |-> [ch EXCEPT !.contracts = Append(@, NewContract(ch.time, duration, beneficiary))],
          address |-> Len(ch.contracts) + 1]

\* EthConnection.Deploy
Deploy(e, dir, ch, durationInSeconds, beneficiaryAddress, fault) ==
    LET deployerKey == LookupEnv(e, "DEPLOYER_ACC_PRIVATE_KEY")
        noKey == ErrorString(<<"deployer private is required to deploy the auction contract">>)
        s == Signer(dir, deployerKey.val, 0, fault)
        sub == SubmitDeploy(ch, durationInSeconds, HexToAddress(beneficiaryAddress), fault)
        Fail(err, d, net, at) == Ret(err, <<"", "">>, d, ch, net, at, err)
    IN  IF ~deployerKey.found THEN Fail(noKey, dir, <<>>, "config")
        ELSE IF s.err # NilErr THEN Fail(s.err, s.dir, <<>>, s.at)
        ELSE IF fault.step = "chainid"
        THEN Fail(ErrorString(fault.text), s.dir, <<"ChainID">>, "chainid")
        ELSE IF fault.step = "auth"
        THEN Fail(ErrorString(fault.text), s.dir, <<"ChainID">>, "auth")
        ELSE IF sub.err # NilErr
        THEN Fail(sub.err, s.dir, <<"ChainID", "SendTransaction">>, "submit")
        ELSE Ret(NilErr, <<AddressString(sub.address), <<"tx", sub.address>>>>, s.dir, sub.chain,
                 <<"ChainID", "SendTransaction">>, "return", NilErr)

\* ------------------------------------------------------------ the state
VARIABLES
    env,        \* the process environment: variable name -> value, or Unset
    client,     \* EthConnection.client: "nil" before NewBlockchainConnection succeeds
    keystore,   \* the entries of the directory ./keys
    chain,      \* the ledger: latest block time and the deployed contracts
    last,       \* the call that returned in the last step, with what it returned
    callers     \* the calls in progress when calls run concurrently (SpecConc)

vars == <<env, client, keystore, chain, last, callers>>

NumCallers == 2
Procs == 1..NumCallers
Idle == [pc |-> "idle", op |-> "none", cache |-> {}, acc |-> <<>>, err |-> NilErr]

\* the configurations: the complete ones, and each with one variable missing or
\* with a bidder key that is no key
FullEnvs ==
    [ INSTANCE_URL : {<<"http://node">>},
      CONTRACT_DEPLOYMENT_ADDR : {AddressString(1)},
      BIDDER_ACC_PRIVATE_KEY : {ValidKey},
      DEPLOYER_ACC_PRIVATE_KEY : {ValidKey} ]
Envs ==
    FullEnvs
    \cup {[e EXCEPT ![n] = Unset] : e \in FullEnvs, n \in DOMAIN CHOOSE x \in FullEnvs : TRUE}
    \cup {[e EXCEPT !.BIDDER_ACC_PRIVATE_KEY = k] : e \in FullEnvs, k \in {NotHexKey, ZeroKey}}

NoCall == [op |-> "none"]
Call(op, r) ==
    [op |-> op, err |-> r.err, val |-> r.val, net |-> r.net, at |-> r.at, raw |-> r.raw]

Init ==
    /\ env \in Envs
    /\ client = "nil"
    /\ keystore = {}
    /\ chain = [time |-> 0, contracts |-> <<>>]
    /\ last = NoCall
    /\ callers = [p \in Procs |-> Idle]

\* the bounds of the model: the ledger an action leaves stays within them
WithinBounds(ch) ==
    /\ Len(ch.contracts) <= MaxContracts
    /\ \A a \in DOMAIN ch.contracts : Len(ch.contracts[a].logs) <= MaxLogs

\* the address the configuration names
Configured == HexToAddress(env.CONTRACT_DEPLOYMENT_ADDR)

\* the ledger with the contracts the engine never reads reduced to their existence
Project(ch) ==
    [ch EXCEPT !.contracts =
        [a \in DOMAIN ch.contracts |-> IF a = Configured THEN ch.contracts[a] ELSE Unread]]

\* NewBlockchainConnection
NewBlockchainConnection ==
    \E fault \in FaultsAt({"dial"}) :
        LET instanceUrl == LookupEnv(env, "INSTANCE_URL")
            missing == ErrorString(<<"Instance url is needed to connect to an ethereum node">>)
            r == IF ~instanceUrl.found
                 THEN Ret(missing, "nil", keystore, chain, <<>>, "config", missing)
                 ELSE IF fault.step = "dial"
                 THEN Ret(ErrorString(fault.text), "nil", keystore, chain, <<"Dial">>, "dial",
                          ErrorString(fault.text))
                 ELSE Ret(NilErr, "open", keystore, chain, <<"Dial">>, "return", NilErr)
        IN  /\ client = "nil"
            /\ client' = r.val
            /\ last' = Call("NewBlockchainConnection", r)
            /\ UNCHANGED <<env, keystore, chain, callers>>

DoGetAuctionStatus ==
    \E fault \in FaultsAt({"endTime", "header", "highestBid"}) :
        \E r \in {GetAuctionStatus(env, keystore, chain, fault)} :
            /\ client = "open"
            /\ last' = Call("GetAuctionStatus", r)
            /\ UNCHANGED <<env, client, keystore, chain, callers>>

DoListAllBids ==
    \E fault \in FaultsAt({"logs"}) :
        \E r \in {ListAllBids(env, keystore, chain, fault)} :
            /\ client = "open"
            /\ last' = Call("ListAllBids", r)
            /\ UNCHANGED <<env, client, keystore, chain, callers>>

DoStats ==
    \E fault \in FaultsAt({"logs"}) :
        \E r \in {Stats(env, keystore, chain, fault)} :
            /\ client = "open"
            /\ last' = Call("Stats", r)
            /\ UNCHANGED <<env, client, keystore, chain, callers>>

BidFaults ==
    FaultsAt({"import", "export", "delete", "chainid", "auth"})
        \cup {Fault("submit", t) : t \in SubmitTexts}

DoBid ==
    \E amount \in 0..MaxInt64, fault \in BidFaults :
        \E r \in {Bid(env, keystore, chain, amount, fault)} :
            /\ client = "open"
            /\ WithinBounds(r.chain)
            /\ keystore' = r.dir
            /\ chain' = r.chain
            /\ last' = Call("Bid", r)
            /\ UNCHANGED <<env, client, callers>>

DoDeploy ==
    \E duration \in 0..MaxDuration,
       fault \in FaultsAt({"import", "export", "delete", "chainid", "auth", "submit"}) :
        \E r \in {Deploy(env, keystore, chain, duration, AddressString(9), fault)} :
            /\ client = "open"
            /\ WithinBounds(r.chain)
            /\ keystore' = r.dir
            /\ chain' = Project(r.chain)
            /\ last' = Call("Deploy", r)
            /\ UNCHANGED <<env, client, callers>>

\* ------------------------------------------------- the rest of the world
\* a block is mined later than the latest one
Tick ==
    /\ chain.time < MaxTime
    /\ chain' = [chain EXCEPT !.time = @ + 1]
    /\ last' = NoCall
    /\ UNCHANGED <<env, client, keystore, callers>>

\* another wallet's bid, of more than an int64 holds, is accepted by the auction
ForeignBid ==
    \E a \in DOMAIN chain.contracts \cap {Configured}, value \in (MaxInt64 + 1)..MaxAmount :
        LET r == ContractBid(chain.contracts[a], chain.time, ForeignAddr, value)
        IN  /\ r.revert = <<>>
            /\ Len(r.c.logs) <= MaxLogs
            /\ chain' = [chain EXCEPT !.contracts[a] = r.c]
            /\ last' = NoCall
            /\ UNCHANGED <<env, client, keystore, callers>>

\* somebody calls auctionEnd on the auction once its end time is reached
ForeignAuctionEnd ==
    \E a \in DOMAIN chain.contracts \cap {Configured} :
        /\ chain.time >= chain.contracts[a].auctionEndTime
        /\ ~chain.contracts[a].ended
        /\ Len(chain.contracts[a].logs) < MaxLogs
        /\ chain' = [chain EXCEPT !.contracts[a] = ContractAuctionEnd(@, chain.time)]
        /\ last' = NoCall
        /\ UNCHANGED <<env, client, keystore, callers>>

Next ==
    \/ NewBlockchainConnection
    \/ DoGetAuctionStatus
    \/ DoListAllBids
    \/ DoStats
    \/ DoBid
    \/ DoDeploy
    \/ Tick
    \/ ForeignBid
    \/ ForeignAuctionEnd

Spec == Init /\ [][Next]_vars

\* ------------------------------------------------- calls run concurrently
\* Two requests call Bid or Deploy on one connection with the same key configured.
\* Each call makes its own KeyStore object over the shared directory ./keys and
\* runs NewKeyStore, ImportECDSA, Export and Delete as separate steps; nothing
\* fails but for what the other call does.
InitConc ==
    /\ env \in FullEnvs
    /\ client = "open"
    /\ keystore = {}
    /\ chain = [time |-> 0, contracts |-> <<>>]
    /\ last = NoCall
    /\ callers = [p \in Procs |-> Idle]

\* the call starts: the environment is read and keystore.NewKeyStore scans ./keys
StartCall(p) ==
    \E op \in {"Bid", "Deploy"} :
        /\ callers[p].pc = "idle"
        /\ callers' = [callers EXCEPT ![p] = [Idle EXCEPT !.pc = "import", !.op = op,
                                                          !.cache = keystore]]
        /\ UNCHANGED <<env, client, keystore, chain, last>>

\* ks.ImportECDSA(privateKey, ""): the cache it consults is the scan NewKeyStore
\* made or, when the directory watcher has refreshed it, the directory as it is
StepImport(p) ==
    \E cache \in {callers[p].cache, keystore} :
        LET key == IF callers[p].op = "Bid" THEN env.BIDDER_ACC_PRIVATE_KEY
                   ELSE env.DEPLOYER_ACC_PRIVATE_KEY
            imp == ImportECDSA(keystore, cache, ToECDSA(DecodeString(key).bytes).key, p, NoFault)
        IN  /\ callers[p].pc = "import"
            /\ keystore' = imp.dir
            /\ callers' = [callers EXCEPT ![p].acc = imp.acc, ![p].err = imp.err,
                              ![p].pc = IF imp.err = NilErr THEN "export" ELSE "done"]
            /\ UNCHANGED <<env, client, chain, last>>

\* ks.Export(acc, "", "")
StepExport(p) ==
    LET exp == Export(keystore, callers[p].acc, NoFault)
    IN  /\ callers[p].pc = "export"
        /\ callers' = [callers EXCEPT ![p].err = exp.err,
                          ![p].pc = IF exp.err = NilErr THEN "delete" ELSE "done"]
        /\ UNCHANGED <<env, client, keystore, chain, last>>

\* ks.Delete(acc, ""), after which the call goes on without the key store
StepDelete(p) ==
    LET del == Delete(keystore, callers[p].acc, NoFault)
    IN  /\ callers[p].pc = "delete"
        /\ keystore' = del.dir
        /\ callers' = [callers EXCEPT ![p].err = del.err, ![p].pc = "done"]
        /\ UNCHANGED <<env, client, chain, last>>

\* the call has returned; the request handler may call again
Return(p) ==
    /\ callers[p].pc = "done"
    /\ callers' = [callers EXCEPT ![p] = Idle]
    /\ UNCHANGED <<env, client, keystore, chain, last>>

NextConc ==
    \E p \in Procs :
        \/ StartCall(p)
        \/ StepImport(p)
        \/ StepExport(p)
        \/ StepDelete(p)
        \/ Return(p)

SpecConc == InitConc /\ [][NextConc]_vars

\* ============================================================ properties
Logs == LogsAt(chain, Configured)
Auction == chain.contracts[Configured]
IsBidEvent(l) == l.topic = "HighestBidIncreased"
BidEvents == {i \in DOMAIN Logs : IsBidEvent(Logs[i])}

RECURSIVE SumAmounts(_)
SumAmounts(bids) == IF bids = <<>> THEN 0 ELSE Head(bids).Amount + SumAmounts(Tail(bids))

RECURSIVE SumOnChain(_)
SumOnChain(logs) ==
    IF logs = <<>> THEN 0
    ELSE (IF IsBidEvent(Head(logs)) THEN Head(logs).data[2] ELSE 0) + SumOnChain(Tail(logs))

Ok(c) == c.err = NilErr

\* C1: a call of Bid or of Deploy, wherever it ends and whatever it returns,
\* leaves in the key store exactly the entries that were there before it.
C1_KeystoreUnchanged ==
    [][last'.op \in {"Bid", "Deploy"} => keystore' = keystore]_vars

\* C2: Bid returns HigherBidAlreadySubmitted or AuctionEnded only as the
\* translation of the submission's rejection: the higher-bid phrase is looked for
\* first, then the ended phrase, any other rejection is returned as it is; the
\* error of an earlier step is returned as it is, whatever its text.
C2_DomainErrorOnlyFromSubmission ==
    last.op = "Bid" =>
        /\ last.at = "submit" =>
              /\ "SendTransaction" = last.net[Len(last.net)]
              /\ Contains(last.raw.text, HigherBidPhrase) => last.err = HigherBidAlreadySubmitted
              /\ ~Contains(last.raw.text, HigherBidPhrase)
                    /\ Contains(last.raw.text, AuctionEndedPhrase) => last.err = AuctionEnded
              /\ ~Contains(last.raw.text, HigherBidPhrase)
                    /\ ~Contains(last.raw.text, AuctionEndedPhrase) => last.err = last.raw
        /\ last.at # "submit" =>
              /\ last.err = last.raw
              /\ last.err.type \notin {"HigherBidAlreadySubmitted", "AuctionEnded"}

\* C2's case: a rejection whose text holds both phrases comes back as
\* HigherBidAlreadySubmitted
C2_Witness ==
    /\ last.op = "Bid" /\ last.at = "submit"
    /\ Contains(last.raw.text, AuctionEndedPhrase)
    /\ last.err = HigherBidAlreadySubmitted

C4_StatsMatchList ==
    LET list == ListAllBids(env, keystore, chain, NoFault)
        stats == Stats(env, keystore, chain, NoFault)
    IN  /\ Ok(list) <=> Ok(stats)
        /\ Ok(list) =>
              /\ Len(list.val) = Len(Logs)
              /\ \A i \in DOMAIN list.val : list.val[i].Sender = Logs[i].data[1]
              /\ stats.val.Bids = Len(list.val)
              /\ stats.val.Volume = SumAmounts(list.val)

\* C5: an operation whose required configuration value is absent returns an error
\* having issued no network call; Deploy requires the deployer secret only.
Required(op) ==
    CASE op = "NewBlockchainConnection" -> {"INSTANCE_URL"}
      [] op \in {"GetAuctionStatus", "ListAllBids", "Stats"} -> {"CONTRACT_DEPLOYMENT_ADDR"}
      [] op = "Bid" -> {"CONTRACT_DEPLOYMENT_ADDR", "BIDDER_ACC_PRIVATE_KEY"}
      [] op = "Deploy" -> {"DEPLOYER_ACC_PRIVATE_KEY"}

C5_MissingConfigurationFailsOffline ==
    last.op # "none" =>
        /\ (\E n \in Required(last.op) : env[n] = Unset) => ~Ok(last) /\ last.net = <<>>
        /\ (last.op = "Deploy" /\ last.at = "config") => env.DEPLOYER_ACC_PRIVATE_KEY = Unset

\* C5's case: Bid without the bidder secret has failed before any network call
C5_Witness ==
    /\ last.op = "Bid" /\ env.BIDDER_ACC_PRIVATE_KEY = Unset
    /\ ~Ok(last) /\ last.net = <<>>

\* C6: of two concurrent calls that use the signer with one key, each ends as it
\* would alone (the signer succeeds), and no entry remains once both have returned.
C6_ConcurrentCallsDoNotInterfere ==
    /\ \A p \in Procs : callers[p].pc = "done" => callers[p].err = NilErr
    /\ (\A p \in Procs : callers[p].pc \in {"idle", "done"}) => keystore = {}

\* C7: what a call returns is determined by its arguments, the configuration and
\* the ledger: it is what the call returns on a key store no earlier call has
\* touched.
C7_NoMemoryOfPastCalls ==
    /\ \A amount \in 0..MaxInt64, fault \in BidFaults :
          Bid(env, keystore, chain, amount, fault).err = Bid(env, {}, chain, amount, fault).err
    /\ \A duration \in 0..MaxDuration :
          Deploy(env, keystore, chain, duration, AddressString(9), NoFault).err
            = Deploy(env, {}, chain, duration, AddressString(9), NoFault).err

\* C8: GetAuctionStatus right after the successful Deploy (duration > 0) of the
\* auction the configuration names reports {Ended: false, HighestBid: 0}; once
\* the chain time is past deployment time + duration it reports Ended: true and
\* the auction's highest bid.
C8_DeployThenStatus ==
    [][(last'.op = "GetAuctionStatus" /\ HasCode(chain, Configured)
            /\ Auction.duration > 0 /\ last'.at \notin {"endTime", "header", "highestBid"}) =>
         /\ (last.op = "Deploy" /\ Ok(last) /\ HexToAddress(last.val[1]) = Configured) =>
               Ok(last') /\ last'.val = [Ended |-> FALSE, HighestBid |-> 0]
         /\ chain.time > Auction.deployTime + Auction.duration =>
               Ok(last') /\ last'.val = [Ended |-> TRUE, HighestBid |-> Auction.highestBid]]_vars

\* C9: ListAllBids returns one Bid for each HighestBidIncreased event, with its
\* sender, and none for any other log entry; Stats counts and sums those events.
C9_OnlyBidEventsListed ==
    /\ (last.op = "ListAllBids" /\ Ok(last)) =>
          /\ Len(last.val) = Cardinality(BidEvents)
          /\ \A i \in DOMAIN last.val :
                \E j \in BidEvents : last.val[i].Sender = Logs[j].data[1]
    /\ (last.op = "Stats" /\ Ok(last)) =>
          /\ last.val.Bids = Cardinality(BidEvents)
          /\ last.val.Volume = Int64(SumOnChain(Logs))

\* C10: on a snapshot of bid events, Stats.Volume is the sum of the on-chain
\* amounts and each Bid.Amount is its event's amount; HighestBid is the
\* contract's highest bid.
C10_ReportedIntegersAreOnChainValues ==
    /\ (last.op = "Stats" /\ Ok(last) /\ BidEvents = DOMAIN Logs) =>
          last.val.Volume = SumOnChain(Logs)
    /\ (last.op = "ListAllBids" /\ Ok(last) /\ BidEvents = DOMAIN Logs) =>
          \A i \in DOMAIN last.val : last.val[i].Amount = Logs[i].data[2]
    /\ (last.op = "GetAuctionStatus" /\ Ok(last)) =>
          last.val.HighestBid = Auction.highestBid

====
